---- MODULE Spec2Model ----
(***************************************************************************)
(* Verity: escrow-less NFT marketplace (programs/verity).                  *)
(*                                                                         *)
(* The ledger is the state: Config, UserVault, Listing, AttestorState and  *)
(* Attestation records, SPL token accounts and lamport balances.  Every    *)
(* instruction is one atomic action: Anchor account validation (in the     *)
(* order of the fields of the #[derive(Accounts)] struct), then the        *)
(* handler, then the exit step (close = ...).  An instruction that returns *)
(* an error changes nothing but the record of the last call.               *)
(***************************************************************************)
EXTENDS Integers, Sequences, FiniteSets, TLC

(***************************************************************************)
(* Integer widths.  TLC's integers are 32 bits wide, so the widths of the  *)
(* program are scaled: u64 is 16 bits, i64 is 16 bits signed, u128 is the  *)
(* 31 bits TLC has.  Every product the pricing code forms stays below      *)
(* U128_MAX, as it stays below 2^128 in the program.                       *)
(***************************************************************************)
U64_MAX == 65535
I64_MAX == 32767
I64_MIN == (0 - I64_MAX) - 1
U128_MAX == 2147483647

\* Program constants.
STATE_ACTIVE == 0
STATE_CANCELLED == 1
STATE_SOLD == 2
BPS_DENOMINATOR == 10000
royalty_bps == 500
MAX_FEE_BPS == 1000
ATTESTATION_TTL == 300

\* Option<T>: None is the empty sequence, Some(x) the sequence <<x>>.
None == <<>>
Some(x) == <<x>>
IsSome(o) == o # <<>>
Unwrap(o) == o[1]

PriceTypes == {"Fixed", "LinearDecay", "Exponential"}

(***************************************************************************)
(* Rust integer primitives used by the pricing and fee code.               *)
(***************************************************************************)
saturating_sub_i64(a, b) ==
    IF a - b > I64_MAX THEN I64_MAX
    ELSE IF a - b < I64_MIN THEN I64_MIN
    ELSE a - b

saturating_sub_u64(a, b) == IF a >= b THEN a - b ELSE 0

saturating_mul_u128(a, b) == IF a * b > U128_MAX THEN U128_MAX ELSE a * b

\* `x as u128` for an i64 x: a negative x wraps to the top of the range.
as_u128(x) == IF x >= 0 THEN x ELSE U128_MAX + (x + 1)

\* `x as u64` for a u128 x: truncation to the low bits.
as_u64(x) == x % (U64_MAX + 1)

max_u64(a, b) == IF a >= b THEN a ELSE b

(***************************************************************************)
(* state.rs: calculate_price                                               *)
(***************************************************************************)
\* Fault seeded for C5: the drop shrinks as time passes.
linear_drop_reversed(config, elapsed) ==
    as_u64(saturating_mul_u128(
               as_u128(saturating_sub_u64(config.start_price, config.min_price)),
               as_u128(config.duration - elapsed))
           \div as_u128(config.duration))

linear_drop(config, elapsed) ==
    as_u64(saturating_mul_u128(
               as_u128(saturating_sub_u64(config.start_price, config.min_price)),
               as_u128(elapsed))
           \div as_u128(config.duration))

linear_decay_price(config, current_ts) ==
    IF current_ts <= config.start_ts THEN config.start_price
    ELSE LET elapsed == saturating_sub_i64(current_ts, config.start_ts) IN
         IF elapsed >= config.duration THEN config.min_price
         ELSE max_u64(saturating_sub_u64(config.start_price,
                                         linear_drop(config, elapsed)),
                      config.min_price)

\* Fault seeded for C6: Exponential decays like LinearDecay.
calculate_price_exp_decays(config, current_ts) ==
    CASE config.price_type = "Fixed" -> config.start_price
      [] config.price_type = "LinearDecay" -> linear_decay_price(config, current_ts)
      [] config.price_type = "Exponential" -> linear_decay_price(config, current_ts)

calculate_price(config, current_ts) ==
    CASE config.price_type = "Fixed" -> config.start_price
      [] config.price_type = "LinearDecay" -> linear_decay_price(config, current_ts)
      [] config.price_type = "Exponential" -> config.start_price

(***************************************************************************)
(* state.rs: validate_conditions.  The result is "ok" or the error.        *)
(***************************************************************************)
\* Fault seeded for C13: the bounds of the window are exclusive.
validate_conditions_exclusive(conditions, current_ts) ==
    IF IsSome(conditions.valid_from) /\ ~(current_ts > Unwrap(conditions.valid_from))
    THEN "ListingNotYetValid"
    ELSE IF IsSome(conditions.valid_until)
            /\ ~(current_ts < Unwrap(conditions.valid_until))
    THEN "ListingExpired"
    ELSE "ok"

validate_conditions(conditions, current_ts) ==
    IF IsSome(conditions.valid_from) /\ ~(current_ts >= Unwrap(conditions.valid_from))
    THEN "ListingNotYetValid"
    ELSE IF IsSome(conditions.valid_until)
            /\ ~(current_ts <= Unwrap(conditions.valid_until))
    THEN "ListingExpired"
    ELSE "ok"

(***************************************************************************)
(* buy_now.rs: the fee computation of the handler.  checked_mul fails      *)
(* above the u128 range, checked_sub below zero.                           *)
(***************************************************************************)
\* Fault seeded for C7: the share is rounded up.
bps_share_ceil(price, bps) ==
    IF price * bps > U128_MAX THEN [err |-> "ArithmeticOverflow", v |-> 0]
    ELSE [err |-> "ok",
          v |-> as_u64((price * bps + (BPS_DENOMINATOR - 1)) \div BPS_DENOMINATOR)]

\* Fault seeded for C28: the product is formed in u64, not widened to u128.
bps_share_narrow(price, bps) ==
    IF price * bps > U64_MAX THEN [err |-> "ArithmeticOverflow", v |-> 0]
    ELSE [err |-> "ok", v |-> as_u64((price * bps) \div BPS_DENOMINATOR)]

bps_share(price, bps) ==
    IF price * bps > U128_MAX THEN [err |-> "ArithmeticOverflow", v |-> 0]
    ELSE [err |-> "ok", v |-> as_u64((price * bps) \div BPS_DENOMINATOR)]

\* Fault seeded for C4: the royalty is not taken out of the seller's amount.
seller_share_keeps_royalty(price, marketplace_fee, royalty) ==
    IF price < marketplace_fee
    THEN [err |-> "ArithmeticOverflow", v |-> 0]
    ELSE [err |-> "ok", v |-> price - marketplace_fee]

seller_share(price, marketplace_fee, royalty) ==
    IF price < marketplace_fee \/ price - marketplace_fee < royalty
    THEN [err |-> "ArithmeticOverflow", v |-> 0]
    ELSE [err |-> "ok", v |-> (price - marketplace_fee) - royalty]

fee_split(price, fee_bps) ==
    LET mf == bps_share(price, fee_bps)
        ro == bps_share(price, royalty_bps)
        sa == seller_share(price, mf.v, ro.v)
    IN  [err |-> IF mf.err # "ok" THEN mf.err
                 ELSE IF ro.err # "ok" THEN ro.err
                 ELSE sa.err,
         price |-> price,
         marketplace_fee |-> mf.v,
         royalty |-> ro.v,
         seller_amount |-> sa.v]

(***************************************************************************)
(* The ledger.                                                             *)
(***************************************************************************)
Users == {"u1", "u2", "u3"}
Mints == {"m1", "m2"}
\* A mint that is not a unique asset: six decimals, a supply of 1000 units.
FungibleMints == {"ft"}
AllMints == Mints \cup FungibleMints
Collections == {"c1", "c2"}
Times == {0, 1, ATTESTATION_TTL, ATTESTATION_TTL + 1}

\* Model bounds: listings created and attestations issued in one behaviour.
MaxListings == 2
MaxNonce == 2

\* A program-derived address is the tuple of its seeds.
VaultKeys == Users \X AllMints
ListingKeys == Users \X Mints
AttestationKeys == Users \X (0 .. (MaxNonce - 1))

\* Token accounts: the token account of a user's wallet for a mint, and the
\* associated token account whose authority is the vault PDA (owner, mint).
wallet_ata(u, m) == <<"wallet", u, m>>
vault_ata_of(o, m) == <<"vault", o, m>>
TokenKeys == {wallet_ata(u, m) : u \in Users, m \in AllMints}
             \cup {vault_ata_of(o, m) : o \in Users, m \in AllMints}
\* The amount of a token account that does not exist.
NoAccount == 0 - 1

\* The mints of Mints are unique assets.
mint_decimals(m) == IF m \in FungibleMints THEN 6 ELSE 0
mint_supply(m) == IF m \in FungibleMints THEN 1000 ELSE 1

NoConfig == [exists |-> FALSE]
NoVault == [exists |-> FALSE]
NoListing == [exists |-> FALSE]
NoAttestorState == [exists |-> FALSE]
NoAttestation == [exists |-> FALSE]
NoCall == [op |-> "none", err |-> "ok"]
CalcIdle == [stage |-> "idle"]

VARIABLES
    now,              \* Clock::get()?.unix_timestamp
    config,           \* the Config PDA [b"config"]
    vaults,           \* UserVault PDAs, by (owner, mint)
    listings,         \* Listing PDAs, by (seller, mint)
    tokens,           \* SPL token accounts: amount, or NoAccount
    lamports,         \* lamports of each user
    attestor_states,  \* AttestorState PDAs, by attestor
    attestations,     \* Attestation PDAs, by (attestor, nonce)
    last,             \* the last instruction: its inputs and its result
    next_id,          \* history: listings created so far
    ended,            \* history: the listings that left Active, and how
    issued,           \* history: successful create_attestation per attestor
    calc              \* pure-function harness (idle in Spec)

vars == <<now, config, vaults, listings, tokens, lamports, attestor_states,
          attestations, last, next_id, ended, issued, calc>>

ledger == <<config, vaults, listings, tokens, lamports, attestor_states,
            attestations>>

initial_lamports(u) == IF u = "u2" THEN 1500 ELSE IF u = "u3" THEN 940 ELSE 0

LedgerInit ==
    /\ now = 0
    /\ config = NoConfig
    /\ vaults = [k \in VaultKeys |-> NoVault]
    /\ listings = [k \in ListingKeys |-> NoListing]
    /\ tokens = [k \in TokenKeys |->
                   IF k = wallet_ata("u1", "m1") \/ k = wallet_ata("u1", "m2")
                      \/ k = wallet_ata("u2", "ft")
                   THEN 1 ELSE NoAccount]
    /\ lamports = [u \in Users |-> initial_lamports(u)]
    /\ attestor_states = [u \in Users |-> NoAttestorState]
    /\ attestations = [k \in AttestationKeys |-> NoAttestation]
    /\ last = NoCall
    /\ next_id = 0
    /\ ended = {}
    /\ issued = [u \in Users |-> 0]

Init == LedgerInit /\ calc = CalcIdle

\* Fault seeded for C12: the payment to the seller made before a later
\* transfer of buy_now fails is kept.
Failed_keeps_payment(call) ==
    LET listing == listings[call.listing]
        split == fee_split(calculate_price(listing.price_config, now),
                           config.fee_bps)
        paid == call.op = "buy_now" /\ call.err = "InsufficientFunds"
                /\ lamports[call.caller] >= split.seller_amount
    IN  /\ last' = [op |-> call.op, err |-> call.err]
        /\ lamports' = IF paid
                       THEN [[lamports EXCEPT ![call.caller] = @ - split.seller_amount]
                                EXCEPT ![listing.seller] = @ + split.seller_amount]
                       ELSE lamports
        /\ UNCHANGED <<config, vaults, listings, tokens, attestor_states,
                       attestations, next_id, ended, issued, now, calc>>

\* What the ledger keeps of a call: the instruction and its result, and for a
\* call that succeeded the values it computed.  A call that returns an error
\* is rolled back by the runtime: nothing else changes.
Failed(call) ==
    /\ last' = [op |-> call.op, err |-> call.err]
    /\ UNCHANGED <<ledger, next_id, ended, issued, now, calc>>

Succeeded(call) ==
    /\ last' = call
    /\ UNCHANGED <<now, calc>>

(***************************************************************************)
(* initialize_config.rs                                                    *)
(***************************************************************************)
\* Fault seeded for C19: the instruction accepts any fee and an address that
\* already holds the config.
initialize_config_result_unchecked(fee_bps) == "ok"

initialize_config_result(fee_bps) ==
    IF config.exists THEN "AccountInUse"                      \* init
    ELSE IF ~(fee_bps <= MAX_FEE_BPS) THEN "InvalidPrice"
    ELSE "ok"

InitializeConfig(authority, fee_bps, fee_recipient) ==
    LET call == [op |-> "initialize_config", caller |-> authority,
                 err |-> initialize_config_result(fee_bps)]
    IN  IF call.err # "ok" THEN Failed(call)
        ELSE /\ Succeeded(call)
             /\ config' = [exists |-> TRUE, authority |-> authority,
                           fee_bps |-> fee_bps, fee_recipient |-> fee_recipient]
             /\ UNCHANGED <<vaults, listings, tokens, lamports, attestor_states,
                            attestations, next_id, ended, issued>>

(***************************************************************************)
(* initialize_user_vault.rs.  The owner passes the token account of their  *)
(* wallet for the mint.                                                    *)
(***************************************************************************)
\* Fault seeded for C21: the handler does not look at the mint.
initialize_user_vault_result_any_mint(owner, mint) ==
    IF vaults[<<owner, mint>>].exists THEN "AccountInUse"
    ELSE IF tokens[wallet_ata(owner, mint)] = NoAccount THEN "AccountNotInitialized"
    ELSE IF tokens[vault_ata_of(owner, mint)] # NoAccount THEN "AccountInUse"
    ELSE IF ~(tokens[wallet_ata(owner, mint)] = 1) THEN "InvalidTokenAmount"
    ELSE "ok"

initialize_user_vault_result(owner, mint) ==
    IF vaults[<<owner, mint>>].exists THEN "AccountInUse"     \* init user_vault
    ELSE IF tokens[wallet_ata(owner, mint)] = NoAccount THEN "AccountNotInitialized"
    ELSE IF tokens[vault_ata_of(owner, mint)] # NoAccount THEN "AccountInUse"
    ELSE IF ~(tokens[wallet_ata(owner, mint)] = 1) THEN "InvalidTokenAmount"
    ELSE IF ~(mint_decimals(mint) = 0) THEN "UnsupportedMint"
    ELSE IF ~(mint_supply(mint) = 1) THEN "UnsupportedMint"
    ELSE "ok"

InitializeUserVault(owner, mint) ==
    LET call == [op |-> "initialize_user_vault", caller |-> owner, mint |-> mint,
                 err |-> initialize_user_vault_result(owner, mint)]
    IN  IF call.err # "ok" THEN Failed(call)
        ELSE /\ Succeeded(call)
             /\ vaults' = [vaults EXCEPT ![<<owner, mint>>] =
                             [exists |-> TRUE, owner |-> owner, mint |-> mint,
                              vault_ata |-> vault_ata_of(owner, mint)]]
             /\ tokens' = [tokens EXCEPT
                             ![wallet_ata(owner, mint)] = @ - 1,
                             ![vault_ata_of(owner, mint)] = 1]
             /\ UNCHANGED <<config, listings, lamports, attestor_states,
                            attestations, next_id, ended, issued>>

(***************************************************************************)
(* create_listing.rs.  The caller passes a UserVault account (that of      *)
(* vault_owner for the mint) and a token account.                          *)
(***************************************************************************)
\* Fault seeded for C9: min_price > 0 is not required.
create_listing_check_no_min(a) ==
    IF ~(a.start_price > 0) THEN "InvalidPrice"
    ELSE IF ~(a.start_price >= a.min_price) THEN "InvalidPrice"
    ELSE IF a.price_type # "Fixed" /\ ~(a.duration > 0) THEN "InvalidDuration"
    ELSE IF IsSome(a.valid_from) /\ IsSome(a.valid_until)
            /\ ~(Unwrap(a.valid_from) < Unwrap(a.valid_until))
    THEN "InvalidTimeWindow"
    ELSE "ok"

create_listing_check(a) ==
    IF ~(a.start_price > 0) THEN "InvalidPrice"
    ELSE IF ~(a.min_price > 0) THEN "InvalidPrice"
    ELSE IF ~(a.start_price >= a.min_price) THEN "InvalidPrice"
    ELSE IF a.price_type # "Fixed" /\ ~(a.duration > 0) THEN "InvalidDuration"
    ELSE IF IsSome(a.valid_from) /\ IsSome(a.valid_until)
            /\ ~(Unwrap(a.valid_from) < Unwrap(a.valid_until))
    THEN "InvalidTimeWindow"
    ELSE "ok"

\* Fault seeded for C22: the listing account is reused when it exists.
create_listing_accounts_reusing(seller, mint, vault_owner, vault_ata) ==
    LET user_vault == vaults[<<vault_owner, mint>>] IN
    IF ~user_vault.exists THEN "AccountNotInitialized"
    ELSE IF tokens[vault_ata] = NoAccount THEN "AccountNotInitialized"
    ELSE IF <<vault_owner, mint>> # <<seller, mint>> THEN "ConstraintSeeds"
    ELSE IF ~(user_vault.owner = seller) THEN "UnauthorizedVaultOwner"
    ELSE IF ~(user_vault.mint = mint) THEN "VaultMismatch"
    ELSE IF ~(vault_ata = user_vault.vault_ata) THEN "VaultMismatch"
    ELSE IF ~(tokens[vault_ata] = 1) THEN "NftNotInVault"
    ELSE "ok"

create_listing_accounts(seller, mint, vault_owner, vault_ata) ==
    LET user_vault == vaults[<<vault_owner, mint>>] IN
    IF listings[<<seller, mint>>].exists THEN "AccountInUse"  \* init listing
    ELSE IF ~user_vault.exists THEN "AccountNotInitialized"
    ELSE IF tokens[vault_ata] = NoAccount THEN "AccountNotInitialized"
    ELSE IF <<vault_owner, mint>> # <<seller, mint>> THEN "ConstraintSeeds"
    ELSE IF ~(user_vault.owner = seller) THEN "UnauthorizedVaultOwner"
    ELSE IF ~(user_vault.mint = mint) THEN "VaultMismatch"
    ELSE IF ~(vault_ata = user_vault.vault_ata) THEN "VaultMismatch"
    ELSE IF ~(tokens[vault_ata] = 1) THEN "NftNotInVault"
    ELSE "ok"

create_listing_result(seller, mint, vault_owner, vault_ata, a) ==
    IF create_listing_accounts(seller, mint, vault_owner, vault_ata) # "ok"
    THEN create_listing_accounts(seller, mint, vault_owner, vault_ata)
    ELSE create_listing_check(a)

new_listing(seller, mint, vault_owner, a) ==
    [exists |-> TRUE,
     seller |-> seller,
     mint |-> vaults[<<vault_owner, mint>>].mint,
     user_vault |-> <<vault_owner, mint>>,
     price_config |-> [price_type |-> a.price_type, start_price |-> a.start_price,
                       min_price |-> a.min_price, start_ts |-> a.start_ts,
                       duration |-> a.duration],
     conditions |-> [min_floor |-> a.min_floor, valid_from |-> a.valid_from,
                     valid_until |-> a.valid_until],
     state |-> STATE_ACTIVE,
     id |-> next_id]

CreateListing(seller, mint, vault_owner, vault_ata, a) ==
    LET call == [op |-> "create_listing", caller |-> seller, mint |-> mint,
                 args |-> a,
                 err |-> create_listing_result(seller, mint, vault_owner,
                                               vault_ata, a)]
    IN  /\ next_id < MaxListings
        /\ IF call.err # "ok" THEN Failed(call)
           ELSE /\ Succeeded(call)
                /\ listings' = [listings EXCEPT ![<<seller, mint>>] =
                                  new_listing(seller, mint, vault_owner, a)]
                /\ next_id' = next_id + 1
                /\ UNCHANGED <<config, vaults, tokens, lamports, attestor_states,
                               attestations, ended, issued>>

(***************************************************************************)
(* cancel_listing.rs.  The caller passes the listing and a UserVault       *)
(* account (that of vault_owner for the listing's mint).                   *)
(***************************************************************************)
cancel_listing_result(caller, lk, vault_owner) ==
    LET listing == listings[lk]
        user_vault == vaults[<<vault_owner, lk[2]>>]
    IN
    IF ~listing.exists THEN "AccountNotInitialized"
    ELSE IF ~user_vault.exists THEN "AccountNotInitialized"
    ELSE IF ~(listing.state = STATE_ACTIVE) THEN "ListingNotActive"
    ELSE IF <<vault_owner, lk[2]>> # <<caller, listing.mint>> THEN "ConstraintSeeds"
    ELSE IF ~(<<vault_owner, lk[2]>> = listing.user_vault) THEN "VaultMismatch"
    ELSE IF ~(caller = listing.seller) THEN "UnauthorizedSeller"
    ELSE "ok"

\* Fault seeded for C1: the record survives the instruction.
keep_listing(listing) == listing

\* close = seller: at exit the record is destroyed, whatever the handler wrote.
close_listing(listing) == NoListing

\* What the history keeps of a listing that left Active.
ended_listing(listing, op, state, asset_to, attestation) ==
    [id |-> listing.id, op |-> op, state |-> state, asset_to |-> asset_to,
     attestation |-> attestation]

\* Fault seeded for C11: the cancel hands the asset back to the seller's wallet.
cancel_listing_returns_asset(lk) ==
    [tokens EXCEPT ![vault_ata_of(lk[1], lk[2])] = 0,
                   ![wallet_ata(lk[1], lk[2])] = 1]

\* Fault seeded for C27: the cancel credits the seller's wallet with a unit
\* while the vault keeps its own.
cancel_listing_credits_seller(lk) ==
    [tokens EXCEPT ![wallet_ata(lk[1], lk[2])] = 1]

\* The handler makes no token transfer: the asset stays in the user's vault.
cancel_listing_custody(lk) == tokens

\* The handler sets listing.state = STATE_CANCELLED; then close = seller.
CancelListing(caller, lk, vault_owner) ==
    LET call == [op |-> "cancel_listing", caller |-> caller, listing |-> lk,
                 err |-> cancel_listing_result(caller, lk, vault_owner)]
    IN  IF call.err # "ok" THEN Failed(call)
        ELSE /\ Succeeded(call)
             /\ listings' = [listings EXCEPT ![lk] =
                               close_listing([@ EXCEPT !.state = STATE_CANCELLED])]
             /\ ended' = ended \cup {ended_listing(listings[lk], "cancel_listing",
                                                   STATE_CANCELLED, "nobody", None)}
             /\ tokens' = cancel_listing_custody(lk)
             /\ UNCHANGED <<config, vaults, lamports, attestor_states,
                            attestations, next_id, issued>>

(***************************************************************************)
(* buy_now.rs.  The buyer passes the listing; the vault, the vault's token *)
(* account, the seller, the config and the fee recipient are the accounts  *)
(* the seeds and constraints pin.                                          *)
(***************************************************************************)
buy_now_accounts(buyer, lk) ==
    LET listing == listings[lk] IN
    IF ~listing.exists THEN "AccountNotInitialized"
    ELSE IF ~vaults[listing.user_vault].exists THEN "AccountNotInitialized"
    ELSE IF tokens[vaults[listing.user_vault].vault_ata] = NoAccount
    THEN "AccountNotInitialized"
    ELSE IF tokens[wallet_ata(buyer, listing.mint)] # NoAccount
    THEN "AccountInUse"                                        \* init buyer_ata
    ELSE IF ~config.exists THEN "AccountNotInitialized"
    ELSE IF ~(listing.state = STATE_ACTIVE) THEN "ListingNotActive"
    ELSE IF ~(tokens[vaults[listing.user_vault].vault_ata] = 1)
    THEN "InvalidTokenAmount"
    ELSE "ok"

\* The system-program transfers, in the order the handler issues them; a
\* transfer of zero lamports is skipped.
buy_now_payments(seller, split) ==
    SelectSeq(<<[step |-> "seller", to |-> seller, amount |-> split.seller_amount],
                [step |-> "fee", to |-> config.fee_recipient,
                 amount |-> split.marketplace_fee],
                [step |-> "royalty", to |-> seller, amount |-> split.royalty]>>,
              LAMBDA t : t.amount > 0)

RECURSIVE pay(_, _, _)
\* The balances after the transfers, or <<>> when one of them fails.
pay(bal, from, transfers) ==
    IF transfers = <<>> THEN <<bal>>
    ELSE LET t == Head(transfers) IN
         IF bal[from] < t.amount THEN <<>>
         ELSE pay([[bal EXCEPT ![from] = @ - t.amount] EXCEPT ![t.to] = @ + t.amount],
                  from, Tail(transfers))

buy_now_call(buyer, lk) ==
    LET acc == buy_now_accounts(buyer, lk)
        listing == listings[lk]
        cond == validate_conditions(listing.conditions, now)
        price == calculate_price(listing.price_config, now)
        split == fee_split(price, config.fee_bps)
        transfers == buy_now_payments(listing.seller, split)
        paid == pay(lamports, buyer, transfers)
        base == [op |-> "buy_now", caller |-> buyer, listing |-> lk]
    IN  IF acc # "ok" THEN base @@ [err |-> acc]
        ELSE IF cond # "ok" THEN base @@ [err |-> cond]
        ELSE IF split.err # "ok" THEN base @@ [err |-> split.err]
        ELSE IF paid = <<>> THEN base @@ [err |-> "InsufficientFunds"]
        ELSE base @@ [err |-> "ok", split |-> split, transfers |-> transfers]

\* The payments, token::transfer, listing.state = STATE_SOLD, close = seller.
BuyNow(buyer, lk) ==
    LET call == buy_now_call(buyer, lk)
        listing == listings[lk]
    IN  IF call.err # "ok" THEN Failed(call)
        ELSE /\ Succeeded(call)
             /\ lamports' = pay(lamports, buyer, call.transfers)[1]
             /\ tokens' = [tokens EXCEPT
                             ![vaults[listing.user_vault].vault_ata] = @ - 1,
                             ![wallet_ata(buyer, listing.mint)] = 1]
             /\ listings' = [listings EXCEPT ![lk] =
                               close_listing([@ EXCEPT !.state = STATE_SOLD])]
             /\ ended' = ended \cup {ended_listing(listing, "buy_now", STATE_SOLD,
                                                   buyer, None)}
             /\ UNCHANGED <<config, vaults, attestor_states, attestations,
                            next_id, issued>>

(***************************************************************************)
(* buy_now.rs, the handler one effect at a time.  A transaction runs alone *)
(* on the ledger: calc holds the buy_now in progress, its position in the  *)
(* handler and the effects it has issued, and no other instruction runs    *)
(* until it has ended.  Only a call that succeeds is followed step by      *)
(* step; a call that fails is rolled back as a whole.                      *)
(***************************************************************************)
PaymentSteps == {"pay_seller", "pay_fee", "pay_royalty"}

\* Fault seeded for C24: the listing is marked Sold before the asset moves.
buy_now_steps_sold_first ==
    <<"pay_seller", "pay_fee", "pay_royalty", "mark_sold", "transfer_asset",
      "close_listing">>

\* The effects of the handler in the order of its statements; close = seller
\* takes effect when the handler has returned.
buy_now_steps ==
    <<"pay_seller", "pay_fee", "pay_royalty", "transfer_asset", "mark_sold",
      "close_listing">>

\* The amount of a payment step; a payment of 0 is not issued.
step_amount(step, split) ==
    CASE step = "pay_seller" -> split.seller_amount
      [] step = "pay_fee" -> split.marketplace_fee
      [] step = "pay_royalty" -> split.royalty
      [] OTHER -> 0

step_issued(step, split) == step \in PaymentSteps => step_amount(step, split) > 0

\* Account validation: buyer_ata is created empty (init_if_needed is not used).
BuyNowBegin(buyer, lk) ==
    LET call == buy_now_call(buyer, lk) IN
    /\ calc = CalcIdle
    /\ IF call.err # "ok" THEN Failed(call)
       ELSE /\ calc' = [stage |-> "buy_now", pc |-> 1, call |-> call,
                        before |-> lamports, done |-> <<>>]
            /\ tokens' = [tokens EXCEPT ![wallet_ata(buyer, listings[lk].mint)] = 0]
            /\ UNCHANGED <<config, vaults, listings, lamports, attestor_states,
                           attestations, last, next_id, ended, issued, now>>

BuyNowStep ==
    /\ calc # CalcIdle
    /\ calc.stage = "buy_now"
    /\ LET call == calc.call
           lk == call.listing
           listing == listings[lk]
           buyer == call.caller
           step == buy_now_steps[calc.pc]
           amount == step_amount(step, call.split)
           to == IF step = "pay_fee" THEN config.fee_recipient ELSE listing.seller
       IN  /\ lamports' = IF step \in PaymentSteps /\ amount > 0
                          THEN [[lamports EXCEPT ![buyer] = @ - amount]
                                   EXCEPT ![to] = @ + amount]
                          ELSE lamports
           /\ tokens' = IF step = "transfer_asset"
                        THEN [tokens EXCEPT
                                ![vaults[listing.user_vault].vault_ata] = @ - 1,
                                ![wallet_ata(buyer, listing.mint)] = @ + 1]
                        ELSE tokens
           /\ listings' = IF step = "mark_sold"
                          THEN [listings EXCEPT ![lk].state = STATE_SOLD]
                          ELSE IF step = "close_listing"
                          THEN [listings EXCEPT ![lk] = close_listing(@)]
                          ELSE listings
           /\ ended' = IF step = "close_listing"
                       THEN ended \cup {ended_listing(listing, "buy_now", STATE_SOLD,
                                                      buyer, None)}
                       ELSE ended
           /\ IF calc.pc = Len(buy_now_steps)
              THEN calc' = CalcIdle /\ last' = call
              ELSE /\ calc' = [calc EXCEPT
                                 !.pc = @ + 1,
                                 !.done = IF step_issued(step, call.split)
                                          THEN Append(@, step) ELSE @]
                   /\ last' = last
           /\ UNCHANGED <<config, vaults, attestor_states, attestations, next_id,
                          issued, now>>

(***************************************************************************)
(* withdraw_from_vault.rs.  The owner passes a UserVault account (that of  *)
(* vault_owner for the mint) and the token account of their wallet.        *)
(***************************************************************************)
\* Fault seeded for C29: the amount in the vault's token account is not checked.
withdraw_from_vault_result_any_amount(owner, vault_owner, mint) ==
    LET user_vault == vaults[<<vault_owner, mint>>] IN
    IF ~user_vault.exists THEN "AccountNotInitialized"
    ELSE IF tokens[user_vault.vault_ata] = NoAccount THEN "AccountNotInitialized"
    ELSE IF tokens[wallet_ata(owner, mint)] = NoAccount THEN "AccountNotInitialized"
    ELSE IF <<vault_owner, mint>> # <<owner, user_vault.mint>> THEN "ConstraintSeeds"
    ELSE IF ~(user_vault.owner = owner) THEN "UnauthorizedVaultOwner"
    ELSE "ok"

withdraw_from_vault_result(owner, vault_owner, mint) ==
    LET user_vault == vaults[<<vault_owner, mint>>] IN
    IF ~user_vault.exists THEN "AccountNotInitialized"
    ELSE IF tokens[user_vault.vault_ata] = NoAccount THEN "AccountNotInitialized"
    ELSE IF tokens[wallet_ata(owner, mint)] = NoAccount THEN "AccountNotInitialized"
    ELSE IF <<vault_owner, mint>> # <<owner, user_vault.mint>> THEN "ConstraintSeeds"
    ELSE IF ~(user_vault.owner = owner) THEN "UnauthorizedVaultOwner"
    ELSE IF ~(tokens[user_vault.vault_ata] = 1) THEN "InvalidTokenAmount"
    ELSE "ok"

\* token::transfer, token::close_account, then close = owner.
WithdrawFromVault(owner, vault_owner, mint) ==
    LET call == [op |-> "withdraw_from_vault", caller |-> owner, mint |-> mint,
                 err |-> withdraw_from_vault_result(owner, vault_owner, mint)]
    IN  IF call.err # "ok" THEN Failed(call)
        ELSE /\ Succeeded(call)
             /\ tokens' = [tokens EXCEPT
                             ![vaults[<<vault_owner, mint>>].vault_ata] = NoAccount,
                             ![wallet_ata(owner, mint)] = @ + 1]
             /\ vaults' = [vaults EXCEPT ![<<vault_owner, mint>>] = NoVault]
             /\ UNCHANGED <<config, listings, lamports, attestor_states,
                            attestations, next_id, ended, issued>>

(***************************************************************************)
(* initialize_attestor_state.rs                                            *)
(***************************************************************************)
\* The account `init` hands to the handler: all fields zero.
default_pubkey == "default"
zeroed_attestor_state == [exists |-> TRUE, attestor |-> default_pubkey, last_nonce |-> 0]

initialize_attestor_state_result(attestor) ==
    IF attestor_states[attestor].exists THEN "AccountInUse"   \* init
    ELSE IF ~(zeroed_attestor_state.attestor = default_pubkey) THEN "AlreadyInitialized"
    ELSE "ok"

InitializeAttestorState(attestor) ==
    LET call == [op |-> "initialize_attestor_state", caller |-> attestor,
                 err |-> initialize_attestor_state_result(attestor)]
    IN  IF call.err # "ok" THEN Failed(call)
        ELSE /\ Succeeded(call)
             /\ attestor_states' = [attestor_states EXCEPT ![attestor] =
                                      [zeroed_attestor_state EXCEPT
                                         !.attestor = attestor,
                                         !.last_nonce = 0]]
             /\ UNCHANGED <<config, vaults, listings, tokens, lamports,
                            attestations, next_id, ended, issued>>

(***************************************************************************)
(* attestation.rs: create_attestation_handler                              *)
(***************************************************************************)
\* Fault seeded for C17: the handler does not compare the caller with the
\* authority of the config.
create_attestation_result_any_attestor(attestor) ==
    IF ~attestor_states[attestor].exists THEN "AccountNotInitialized"
    ELSE IF attestations[<<attestor, attestor_states[attestor].last_nonce>>].exists
    THEN "AccountInUse"
    ELSE IF ~config.exists THEN "AccountNotInitialized"
    ELSE IF attestor_states[attestor].last_nonce + 1 > U64_MAX
    THEN "ArithmeticOverflow"
    ELSE "ok"

create_attestation_result(attestor) ==
    IF ~attestor_states[attestor].exists THEN "AccountNotInitialized"
    ELSE IF attestations[<<attestor, attestor_states[attestor].last_nonce>>].exists
    THEN "AccountInUse"                                        \* init attestation
    ELSE IF ~config.exists THEN "AccountNotInitialized"
    ELSE IF ~(attestor = config.authority) THEN "UnauthorizedAttestor"
    ELSE IF attestor_states[attestor].last_nonce + 1 > U64_MAX
    THEN "ArithmeticOverflow"
    ELSE "ok"

new_attestation(attestor, collection, floor) ==
    [exists |-> TRUE, attestor |-> attestor, collection |-> collection,
     floor |-> floor, ts |-> now,
     nonce |-> attestor_states[attestor].last_nonce, used |-> FALSE]

\* Fault seeded for C3: last_nonce is not advanced.
next_nonce_stuck(attestor) == attestor_states[attestor].last_nonce

next_nonce(attestor) == attestor_states[attestor].last_nonce + 1

CreateAttestation(attestor, collection, floor) ==
    LET call == [op |-> "create_attestation", caller |-> attestor,
                 err |-> create_attestation_result(attestor)]
    IN  /\ attestor_states[attestor].exists
              => attestor_states[attestor].last_nonce < MaxNonce
        /\ IF call.err # "ok" THEN Failed(call)
           ELSE /\ Succeeded(call @@ [nonce |-> attestor_states[attestor].last_nonce])
                /\ attestations' =
                       [attestations EXCEPT
                          ![<<attestor, attestor_states[attestor].last_nonce>>] =
                              new_attestation(attestor, collection, floor)]
                /\ attestor_states' = [attestor_states EXCEPT
                                         ![attestor].last_nonce = next_nonce(attestor)]
                /\ issued' = [issued EXCEPT ![attestor] = @ + 1]
                /\ UNCHANGED <<config, vaults, listings, tokens, lamports,
                               next_id, ended>>

(***************************************************************************)
(* attestation.rs: force_cancel_handler.  The caller passes the listing,   *)
(* an attestation and the collection.  attestation.rs reads                *)
(* listing.vault_ata, listing.min_price and STATE_OPEN, which the Listing  *)
(* of state.rs does not declare: they are read as the token account of    *)
(* the vault the listing references, price_config.min_price and            *)
(* STATE_ACTIVE.  seller_token_account is the caller's wallet.             *)
(***************************************************************************)
listing_vault_ata(listing) == vault_ata_of(listing.seller, listing.mint)
listing_min_price(listing) == listing.price_config.min_price
STATE_OPEN == STATE_ACTIVE

\* The token account is that of the wallet of user u.
owned_by(token_account, u) == token_account[1] = "wallet" /\ token_account[2] = u

\* Fault seeded for C30: the signer is not compared with the listing's seller.
force_cancel_accounts_any_signer(caller, lk, ak, seller_token_account) ==
    LET listing == listings[lk]
        attestation == attestations[ak]
    IN
    IF ~listing.exists THEN "AccountNotInitialized"
    ELSE IF tokens[listing_vault_ata(listing)] = NoAccount THEN "AccountNotInitialized"
    ELSE IF tokens[seller_token_account] = NoAccount THEN "AccountNotInitialized"
    ELSE IF ~attestation.exists THEN "AccountNotInitialized"
    ELSE IF ~attestor_states[attestation.attestor].exists THEN "AccountNotInitialized"
    ELSE IF ~config.exists THEN "AccountNotInitialized"
    ELSE IF ~(listing.state = STATE_OPEN) THEN "ListingNotOpen"
    ELSE IF ~(tokens[listing_vault_ata(listing)] = 1) THEN "ConstraintRaw"
    ELSE IF ~owned_by(seller_token_account, caller) THEN "ConstraintRaw"
    ELSE IF ~(seller_token_account[3] = listing.mint) THEN "ConstraintRaw"
    ELSE IF ~(attestation.attestor = config.authority) THEN "UnauthorizedAttestor"
    ELSE IF ~(~attestation.used) THEN "AttestationUsed"
    ELSE IF ~(attestor_states[attestation.attestor].attestor = attestation.attestor)
    THEN "ConstraintRaw"
    ELSE "ok"

\* Account validation of ForceCancelWithAttestation: every account is loaded,
\* then the constraints run in the order of the fields.  The caller signs as
\* `seller` and passes seller_token_account.
force_cancel_accounts_given(caller, lk, ak, seller_token_account) ==
    LET listing == listings[lk]
        attestation == attestations[ak]
    IN
    IF ~listing.exists THEN "AccountNotInitialized"
    ELSE IF tokens[listing_vault_ata(listing)] = NoAccount THEN "AccountNotInitialized"
    ELSE IF tokens[seller_token_account] = NoAccount THEN "AccountNotInitialized"
    ELSE IF ~attestation.exists THEN "AccountNotInitialized"
    ELSE IF ~attestor_states[attestation.attestor].exists THEN "AccountNotInitialized"
    ELSE IF ~config.exists THEN "AccountNotInitialized"
    ELSE IF ~(listing.state = STATE_OPEN) THEN "ListingNotOpen"
    ELSE IF ~(tokens[listing_vault_ata(listing)] = 1) THEN "ConstraintRaw"
    ELSE IF ~(caller = listing.seller) THEN "UnauthorizedSeller"
    ELSE IF ~owned_by(seller_token_account, caller) THEN "ConstraintRaw"
    ELSE IF ~(seller_token_account[3] = listing.mint) THEN "ConstraintRaw"
    ELSE IF ~(attestation.attestor = config.authority) THEN "UnauthorizedAttestor"
    ELSE IF ~(~attestation.used) THEN "AttestationUsed"
    ELSE IF ~(attestor_states[attestation.attestor].attestor = attestation.attestor)
    THEN "ConstraintRaw"
    ELSE "ok"

\* The caller passes the token account of their own wallet for the mint.
force_cancel_accounts(caller, lk, ak) ==
    force_cancel_accounts_given(caller, lk, ak, wallet_ata(caller, lk[2]))

\* Fault seeded for C25: the floor is compared before the age.
force_cancel_check_floor_first(lk, ak, collection) ==
    LET listing == listings[lk]
        attestation == attestations[ak]
        age == now - attestation.ts
    IN
    IF ~(attestation.collection = collection) THEN "InvalidMetadata"
    ELSE IF ~(attestation.floor < listing_min_price(listing)) THEN "FloorTooHigh"
    ELSE IF age > I64_MAX \/ age < I64_MIN THEN "ArithmeticOverflow"
    ELSE IF ~(age <= ATTESTATION_TTL) THEN "AttestationExpired"
    ELSE "ok"

\* Fault seeded for C14: an attestation aged exactly the time-to-live is refused.
force_cancel_check_ttl_exclusive(lk, ak, collection) ==
    LET listing == listings[lk]
        attestation == attestations[ak]
        age == now - attestation.ts
    IN
    IF ~(attestation.collection = collection) THEN "InvalidMetadata"
    ELSE IF age > I64_MAX \/ age < I64_MIN THEN "ArithmeticOverflow"
    ELSE IF ~(age < ATTESTATION_TTL) THEN "AttestationExpired"
    ELSE IF ~(attestation.floor < listing_min_price(listing)) THEN "FloorTooHigh"
    ELSE "ok"

\* Fault seeded for C15: a floor equal to the minimum price cancels the listing.
force_cancel_check_floor_inclusive(lk, ak, collection) ==
    LET listing == listings[lk]
        attestation == attestations[ak]
        age == now - attestation.ts
    IN
    IF ~(attestation.collection = collection) THEN "InvalidMetadata"
    ELSE IF age > I64_MAX \/ age < I64_MIN THEN "ArithmeticOverflow"
    ELSE IF ~(age <= ATTESTATION_TTL) THEN "AttestationExpired"
    ELSE IF ~(attestation.floor <= listing_min_price(listing)) THEN "FloorTooHigh"
    ELSE "ok"

force_cancel_check(lk, ak, collection) ==
    LET listing == listings[lk]
        attestation == attestations[ak]
        age == now - attestation.ts
    IN
    IF ~(attestation.collection = collection) THEN "InvalidMetadata"
    ELSE IF age > I64_MAX \/ age < I64_MIN THEN "ArithmeticOverflow"
    ELSE IF ~(age <= ATTESTATION_TTL) THEN "AttestationExpired"
    ELSE IF ~(attestation.floor < listing_min_price(listing)) THEN "FloorTooHigh"
    ELSE "ok"

force_cancel_result_given(caller, lk, ak, collection, seller_token_account) ==
    IF force_cancel_accounts_given(caller, lk, ak, seller_token_account) # "ok"
    THEN force_cancel_accounts_given(caller, lk, ak, seller_token_account)
    ELSE force_cancel_check(lk, ak, collection)

force_cancel_result(caller, lk, ak, collection) ==
    force_cancel_result_given(caller, lk, ak, collection, wallet_ata(caller, lk[2]))

\* Fault seeded for C2: the attestation is left unused.
consume_nothing(attestation) == attestation

consume(attestation) == [attestation EXCEPT !.used = TRUE]

\* attestation.used = true, token::transfer, token::close_account, then
\* close = seller.  The handler does not write listing.state.
ForceCancelGiven(caller, lk, ak, collection, seller_token_account) ==
    LET call == [op |-> "force_cancel", caller |-> caller, listing |-> lk,
                 attestation |-> ak,
                 err |-> force_cancel_result_given(caller, lk, ak, collection,
                                                   seller_token_account)]
        listing == listings[lk]
    IN  IF call.err # "ok" THEN Failed(call)
        ELSE /\ Succeeded(call)
             /\ attestations' = [attestations EXCEPT ![ak] = consume(@)]
             /\ tokens' = [tokens EXCEPT
                             ![listing_vault_ata(listing)] = NoAccount,
                             ![seller_token_account] = @ + 1]
             /\ listings' = [listings EXCEPT ![lk] = close_listing(@)]
             /\ ended' = ended \cup {ended_listing(listing, "force_cancel",
                                                   listing.state, caller, Some(ak))}
             /\ UNCHANGED <<config, vaults, lamports, attestor_states,
                            next_id, issued>>

\* The caller passes the token account of their own wallet for the mint.
ForceCancel(caller, lk, ak, collection) ==
    ForceCancelGiven(caller, lk, ak, collection, wallet_ata(caller, lk[2]))

(***************************************************************************)
(* The clock of the cluster advances.                                      *)
(***************************************************************************)
Tick(t) ==
    /\ t > now
    /\ now' = t
    /\ UNCHANGED <<ledger, last, next_id, ended, issued, calc>>

(***************************************************************************)
(* The inputs of the instructions.                                         *)
(***************************************************************************)
FeeBpsInputs == {250, MAX_FEE_BPS, MAX_FEE_BPS + 1}
FloorInputs == {180, 200}

ListingArgs ==
    LET A(pt, sp, mp, d, vf, vu) ==
            [price_type |-> pt, start_price |-> sp, min_price |-> mp,
             start_ts |-> 0, duration |-> d, min_floor |-> None,
             valid_from |-> vf, valid_until |-> vu]
    IN  { A("Fixed", 1000, 200, 0, None, None),
          A("LinearDecay", 1000, 200, ATTESTATION_TTL, None, None),
          A("Fixed", 1000, 1000, 0, Some(1), Some(ATTESTATION_TTL)),
          A("Fixed", 0, 0, 0, None, None),
          A("Fixed", 1000, 0, 0, None, None),
          A("Fixed", 200, 1000, 0, None, None),
          A("LinearDecay", 1000, 200, 0, None, None),
          A("Exponential", 1000, 200, 0 - 1, None, None),
          A("Fixed", 1000, 200, 0, Some(1), Some(1)),
          A("LinearDecay", 0, 200, 0, Some(ATTESTATION_TTL), Some(1)) }

\* The token accounts a caller may pass as vault_ata.
VaultAtaInputs(caller, vault_owner, mint) ==
    {vault_ata_of(vault_owner, mint), wallet_ata(caller, mint)}

(***************************************************************************)
(* Spec: the marketplace of one asset, every instruction, every caller.    *)
(***************************************************************************)
CreateListingInputs ==
    {<<s, s, vault_ata_of(s, "m1"), a>> : s \in Users, a \in ListingArgs}
    \cup UNION {{<<s, vo, ta, a>> :
                    ta \in VaultAtaInputs(s, vo, "m1"),
                    a \in {a \in ListingArgs :
                             /\ a.price_type = "Fixed" /\ a.min_price \in {0, 200}
                             /\ a.start_price = 1000 /\ a.valid_from = None}} :
                <<s, vo>> \in Users \X Users}

Next ==
    \/ \E t \in Times : Tick(t)
    \/ \E f \in FeeBpsInputs : InitializeConfig("u3", f, "u3")
    \/ \E o \in Users, m \in {"m1"} \cup FungibleMints : InitializeUserVault(o, m)
    \/ \E i \in CreateListingInputs : CreateListing(i[1], "m1", i[2], i[3], i[4])
    \/ \E c \in Users, s \in Users, vo \in Users : CancelListing(c, <<s, "m1">>, vo)
    \/ \E b \in Users, s \in Users : BuyNow(b, <<s, "m1">>)
    \/ \E o \in Users, vo \in Users : WithdrawFromVault(o, vo, "m1")

Spec == Init /\ [][Next]_vars

(***************************************************************************)
(* SpecAttest: the attestation protocol.  u1 sells two assets at a         *)
(* decaying price, u2 and u3 buy, u3 is the Config authority and the       *)
(* attestor, u2 a would-be attestor.  The clock makes one jump, past the   *)
(* time to live of an attestation and the end of the decay.                *)
(***************************************************************************)
AttestListingArgs == {a \in ListingArgs : a.price_type = "LinearDecay"
                                          /\ create_listing_check(a) = "ok"}

NextAttest ==
    \/ Tick(ATTESTATION_TTL + 1)
    \/ InitializeConfig("u3", 250, "u3")
    \/ \E m \in Mints : InitializeUserVault("u1", m)
    \/ \E m \in Mints, a \in AttestListingArgs :
          CreateListing("u1", m, "u1", vault_ata_of("u1", m), a)
    \/ \E m \in Mints : CancelListing("u1", <<"u1", m>>, "u1")
    \/ \E b \in {"u2", "u3"}, m \in Mints : BuyNow(b, <<"u1", m>>)
    \/ InitializeAttestorState("u3")
    \/ \E a \in {"u2", "u3"}, f \in FloorInputs : CreateAttestation(a, "c1", f)
    \/ \E c \in {"u1", "u3"}, m \in Mints, n \in 0 .. (MaxNonce - 1), col \in Collections :
          ForceCancel(c, <<"u1", m>>, <<"u3", n>>, col)

SpecAttest == Init /\ [][NextAttest]_vars

(***************************************************************************)
(* SpecPure: calculate_price, validate_conditions and the fee computation  *)
(* of buy_now applied to inputs drawn from bounded sets.  The ledger stays *)
(* as constructed.                                                         *)
(***************************************************************************)
PriceConfigInputs ==
    [price_type : PriceTypes,
     start_price : {0, 200, 1000, U64_MAX},
     min_price : {0, 200, 1000},
     start_ts : {I64_MIN, 0, 50},
     duration : {0 - 1, 0, 3, 100, I64_MAX}]

TimeInputs == {I64_MIN, 0 - 1, 0, 1, 2, 50, 51, 100, 150, I64_MAX}

PriceInputs == 0 .. 41 \cup {599, 600, 601, 9999, 10000, U64_MAX}
SplitBpsInputs == {0, 1, 250, 999, MAX_FEE_BPS}

MinFloorInputs == {None, Some(0), Some(1000)}
WindowInputs == {None} \cup {Some(t) : t \in {I64_MIN, 0 - 1, 0, 50, 100, I64_MAX}}

\* The conditions create_listing stores: from < until when both are given.
ConditionsInputs ==
    {c \in [min_floor : MinFloorInputs, valid_from : WindowInputs,
            valid_until : WindowInputs] :
        create_listing_check([price_type |-> "Fixed", start_price |-> 1000,
                              min_price |-> 200, start_ts |-> 0, duration |-> 0,
                              min_floor |-> c.min_floor,
                              valid_from |-> c.valid_from,
                              valid_until |-> c.valid_until]) = "ok"}

InitPure ==
    /\ LedgerInit
    /\ \/ \E c \in PriceConfigInputs, t1 \in TimeInputs, t2 \in TimeInputs :
              /\ t1 <= t2
              /\ calc = [stage |-> "input", fn |-> "calculate_price",
                         config |-> c, t1 |-> t1, t2 |-> t2]
       \/ \E p \in PriceInputs, f \in SplitBpsInputs :
              calc = [stage |-> "input", fn |-> "fee_split", price |-> p, fee_bps |-> f]
       \/ \E c \in ConditionsInputs, t \in TimeInputs :
              calc = [stage |-> "input", fn |-> "validate_conditions",
                      conditions |-> c, t1 |-> t]

RunCalculatePrice ==
    /\ calc.stage = "input" /\ calc.fn = "calculate_price"
    /\ calc' = [calc EXCEPT !.stage = "done"]
                  @@ [p1 |-> calculate_price(calc.config, calc.t1),
                      p2 |-> calculate_price(calc.config, calc.t2)]
    /\ UNCHANGED <<ledger, now, last, next_id, ended, issued>>

RunFeeSplit ==
    /\ calc.stage = "input" /\ calc.fn = "fee_split"
    /\ calc' = [calc EXCEPT !.stage = "done"]
                  @@ [split |-> fee_split(calc.price, calc.fee_bps)]
    /\ UNCHANGED <<ledger, now, last, next_id, ended, issued>>

RunValidateConditions ==
    /\ calc.stage = "input" /\ calc.fn = "validate_conditions"
    /\ calc' = [calc EXCEPT !.stage = "done"]
                  @@ [result |-> validate_conditions(calc.conditions, calc.t1)]
    /\ UNCHANGED <<ledger, now, last, next_id, ended, issued>>

NextPure == RunCalculatePrice \/ RunFeeSplit \/ RunValidateConditions

SpecPure == InitPure /\ [][NextPure]_vars

(***************************************************************************)
(* Pricing and fee claims, checked under SpecPure.                         *)
(***************************************************************************)
PriceDone == calc.stage = "done" /\ calc.fn = "calculate_price"
SplitDone == calc.stage = "done" /\ calc.fn = "fee_split"

\* The config is one create_listing accepts.
AcceptedConfig(c) ==
    create_listing_check([price_type |-> c.price_type, start_price |-> c.start_price,
                          min_price |-> c.min_price, start_ts |-> c.start_ts,
                          duration |-> c.duration, min_floor |-> None,
                          valid_from |-> None, valid_until |-> None]) = "ok"

LinearDecayShapeAt(c, t, p) ==
    /\ c.min_price <= p /\ p <= c.start_price
    /\ t <= c.start_ts => p = c.start_price
    /\ t >= c.start_ts + c.duration => p = c.min_price

\* C5: for every LinearDecay config create_listing accepts and all times
\* t1 <= t2, the price at t2 is at most the price at t1, every price lies in
\* [min_price, start_price], it is start_price up to start_ts and min_price
\* from start_ts + duration on.
C5_LinearDecayShape ==
    (PriceDone /\ calc.config.price_type = "LinearDecay" /\ AcceptedConfig(calc.config))
    => /\ calc.t1 <= calc.t2
       /\ calc.p2 <= calc.p1
       /\ LinearDecayShapeAt(calc.config, calc.t1, calc.p1)
       /\ LinearDecayShapeAt(calc.config, calc.t2, calc.p2)

\* C5 happens: two times strictly inside the decay, the later one cheaper.
C5_Witness ==
    /\ PriceDone /\ calc.config.price_type = "LinearDecay" /\ AcceptedConfig(calc.config)
    /\ calc.config.start_ts < calc.t1 /\ calc.t1 < calc.t2
    /\ calc.t2 < calc.config.start_ts + calc.config.duration
    /\ calc.config.min_price < calc.p2 /\ calc.p2 < calc.p1
    /\ calc.p1 < calc.config.start_price

\* The pricing function as the specification words it, over the integers.
reference_price(c, t) ==
    IF c.price_type = "Fixed" \/ c.price_type = "Exponential" THEN c.start_price
    ELSE IF t <= c.start_ts THEN c.start_price
    ELSE IF t - c.start_ts >= c.duration THEN c.min_price
    ELSE LET p == c.start_price
                  - (((c.start_price - c.min_price) * (t - c.start_ts)) \div c.duration)
         IN  IF p < c.min_price THEN c.min_price ELSE p

\* C6: calculate_price equals the reference pricing function for every config
\* and time of the bounded set: Fixed and Exponential return start_price,
\* LinearDecay inside the decay returns start_price minus the floored linear
\* drop, clamped below at min_price; {LinearDecay, 1000, 200, 0, 100} at 50
\* gives 600.
C6_CalculatePriceIsReference ==
    /\ PriceDone => /\ calc.p1 = reference_price(calc.config, calc.t1)
                    /\ calc.p2 = reference_price(calc.config, calc.t2)
    /\ (/\ PriceDone
        /\ calc.config = [price_type |-> "LinearDecay", start_price |-> 1000,
                          min_price |-> 200, start_ts |-> 0, duration |-> 100]
        /\ calc.t2 = 50) => calc.p2 = 600

\* C6 happens: the scenario of the specification has been computed.
C6_Witness ==
    /\ PriceDone
    /\ calc.config = [price_type |-> "LinearDecay", start_price |-> 1000,
                      min_price |-> 200, start_ts |-> 0, duration |-> 100]
    /\ calc.t1 = 1 /\ calc.p1 = 992
    /\ calc.t2 = 50 /\ calc.p2 = 600

\* C7: for every price and every fee_bps <= 1000 the split is
\* marketplace_fee = floor(price * fee_bps / 10000), royalty =
\* floor(price * 500 / 10000), seller_amount = price - marketplace_fee -
\* royalty; price 600 at 250 bps gives 15, 30 and 555; marketplace_fee +
\* royalty never exceeds price * (fee_bps + 500) / 10000 and is at most 2
\* below it.
C7_FeeSplitter ==
    (SplitDone /\ calc.fee_bps <= 1000)
    => LET sp == calc.split
           exact == calc.price * (calc.fee_bps + 500)
       IN  /\ sp.err = "ok"
           /\ sp.marketplace_fee = (calc.price * calc.fee_bps) \div 10000
           /\ sp.royalty = (calc.price * 500) \div 10000
           /\ sp.seller_amount = (calc.price - sp.marketplace_fee) - sp.royalty
           /\ 10000 * (sp.marketplace_fee + sp.royalty) <= exact
           /\ exact - 10000 * (sp.marketplace_fee + sp.royalty) <= 2 * 10000
           /\ (calc.price = 600 /\ calc.fee_bps = 250)
              => /\ sp.marketplace_fee = 15 /\ sp.royalty = 30
                 /\ sp.seller_amount = 555

\* C7 happens: the scenario of the specification has been computed.
C7_Witness ==
    /\ SplitDone /\ calc.price = 600 /\ calc.fee_bps = 250
    /\ calc.split.err = "ok" /\ calc.split.seller_amount = 555

(***************************************************************************)
(* Listing claims, checked under Spec.                                     *)
(***************************************************************************)
\* The step is a buy_now that succeeded.
BoughtNow == last'.err = "ok" /\ last'.op = "buy_now" /\ last' # last

\* C4: for every successful buy_now, with price the value calculate_price
\* returns for the listing at the current time and fee_bps that of Config,
\* marketplace_fee + royalty + seller_amount = price, and the buyer's
\* transfers are exactly these amounts.
C4_SplitConservation ==
    [][BoughtNow =>
         LET listing == listings[last'.listing]
             price == calculate_price(listing.price_config, now)
             sp == last'.split
         IN  /\ listing.exists
             /\ sp = fee_split(price, config.fee_bps)
             /\ sp.price = price
             /\ sp.marketplace_fee + sp.royalty + sp.seller_amount = price
             /\ last'.transfers = buy_now_payments(listing.seller, sp)]_vars

\* C4 happens: a sale at a decayed price no share of which is whole.
C4_Witness ==
    /\ last.op = "buy_now" /\ last.err = "ok"
    /\ last.split.price = 998 /\ last.split.marketplace_fee = 24
    /\ last.split.royalty = 49 /\ last.split.seller_amount = 925

\* The first check of an otherwise valid create_listing that fails, as the
\* specification names it.
create_listing_expected(seller, vault_owner, vault_ata, a) ==
    LET user_vault == vaults[<<vault_owner, "m1">>] IN
    IF ~(user_vault.owner = seller) THEN "UnauthorizedVaultOwner"
    ELSE IF ~(vault_ata = user_vault.vault_ata) THEN "VaultMismatch"
    ELSE IF ~(tokens[vault_ata] = 1) THEN "NftNotInVault"
    ELSE IF ~(a.start_price > 0 /\ a.min_price > 0 /\ a.start_price >= a.min_price)
    THEN "InvalidPrice"
    ELSE IF a.price_type # "Fixed" /\ a.duration <= 0 THEN "InvalidDuration"
    ELSE IF IsSome(a.valid_from) /\ IsSome(a.valid_until)
            /\ Unwrap(a.valid_from) >= Unwrap(a.valid_until)
    THEN "InvalidTimeWindow"
    ELSE "ok"

\* C8: create_listing fails with InvalidPrice unless start_price > 0,
\* min_price > 0 and start_price >= min_price, with InvalidDuration when the
\* type is not Fixed and duration <= 0, with InvalidTimeWindow when both
\* bounds are given and valid_from >= valid_until, with
\* UnauthorizedVaultOwner / VaultMismatch / NftNotInVault when the referenced
\* vault is not the caller's, is not the vault of the asset, or does not hold
\* one unit; a new listing is Active.  Stated for calls whose accounts exist
\* and whose seller has no listing of the asset yet.
C8_CreateListingRejections ==
    /\ \A i \in CreateListingInputs :
          (/\ ~listings[<<i[1], "m1">>].exists
           /\ vaults[<<i[2], "m1">>].exists
           /\ tokens[i[3]] # NoAccount)
          => create_listing_result(i[1], "m1", i[2], i[3], i[4])
                 = create_listing_expected(i[1], i[2], i[3], i[4])
    /\ (last.op = "create_listing" /\ last.err = "ok")
          => /\ listings[<<last.caller, last.mint>>].exists
             /\ listings[<<last.caller, last.mint>>].state = STATE_ACTIVE

\* C8 diverges: a caller who referenced the vault of another user was turned
\* away by the seeds constraint.
C8_Witness ==
    /\ last.op = "create_listing" /\ last.err = "ConstraintSeeds"
    /\ \E o \in Users : vaults[<<o, "m1">>].exists /\ ~listings[<<o, "m1">>].exists

ListingRecordOk(l) ==
    /\ l.state = STATE_ACTIVE
    /\ l.price_config.start_price >= l.price_config.min_price
    /\ l.price_config.min_price > 0
    /\ l.price_config.price_type # "Fixed" => l.price_config.duration > 0

\* C9: in every reachable state every existing Listing record is Active with
\* start_price >= min_price > 0, and duration > 0 unless its type is Fixed;
\* no step changes the price config or the conditions of a listing.
C9_ListingRecordInvariant ==
    /\ [](\A k \in ListingKeys : listings[k].exists => ListingRecordOk(listings[k]))
    /\ [][\A k \in ListingKeys :
            (listings[k].exists /\ listings'[k].exists)
            => /\ listings'[k].price_config = listings[k].price_config
               /\ listings'[k].conditions = listings[k].conditions
               /\ listings'[k].id = listings[k].id]_vars

\* C9 happens: a decaying listing is on the ledger while the clock has moved
\* and a purchase of it has been turned away.
C9_Witness ==
    /\ \E k \in ListingKeys :
          /\ listings[k].exists
          /\ listings[k].price_config.price_type = "LinearDecay"
    /\ now > 0
    /\ last.op = "buy_now" /\ last.err = "InsufficientFunds"

\* C10: cancel_listing by anyone but the listing's seller fails with
\* UnauthorizedSeller, and on a listing that is not Active with
\* ListingNotActive.  Stated for the call that passes the vault the listing
\* references.
C10_CancelListingRejections ==
    \A c \in Users, k \in ListingKeys :
        (listings[k].exists /\ vaults[listings[k].user_vault].exists)
        => LET r == cancel_listing_result(c, k, listings[k].user_vault[1]) IN
           /\ listings[k].state # STATE_ACTIVE => r = "ListingNotActive"
           /\ (listings[k].state = STATE_ACTIVE /\ c # listings[k].seller)
              => r = "UnauthorizedSeller"
           /\ (listings[k].state = STATE_ACTIVE /\ c = listings[k].seller) => r = "ok"

\* C10 diverges: a cancel_listing was turned away by the seeds constraint of
\* the vault while a listing is on the ledger.
C10_Witness ==
    /\ last.op = "cancel_listing" /\ last.err = "ConstraintSeeds"
    /\ \E k \in ListingKeys : listings[k].exists /\ vaults[listings[k].user_vault].exists

(***************************************************************************)
(* Lifecycle and attestation claims, checked under SpecAttest.             *)
(***************************************************************************)
TerminalOps == {"cancel_listing", "buy_now", "force_cancel"}

\* The step is a cancel_listing, buy_now or force_cancel that succeeded.
LeftActive == last'.err = "ok" /\ last'.op \in TerminalOps /\ last' # last

\* No cancel_listing, buy_now or force_cancel on the listing at k can succeed.
NothingEnds(k) ==
    /\ \A c \in Users, vo \in Users : cancel_listing_result(c, k, vo) # "ok"
    /\ \A b \in Users : buy_now_call(b, k).err # "ok"
    /\ \A c \in Users, ak \in AttestationKeys, col \in Collections :
          force_cancel_result(c, k, ak, col) # "ok"

\* C1: a listing that left Active through cancel_listing, buy_now or
\* force_cancel is destroyed and no later cancel_listing, buy_now or
\* force_cancel on it succeeds: of the buyers' buy_now and the seller's
\* cancel_listing / force_cancel on one Active listing at most one commits,
\* so no listing is both Sold and Cancelled or delivered to two buyers.
C1_ListingTerminalStates ==
    /\ [](\A e1 \in ended, e2 \in ended : e1.id = e2.id => e1 = e2)
    /\ [](\A k \in ListingKeys :
             IF listings[k].exists
             THEN \A e \in ended : e.id # listings[k].id
             ELSE NothingEnds(k))
    /\ [][LeftActive =>
            LET k == last'.listing IN
            /\ listings[k].exists /\ listings[k].state = STATE_ACTIVE
            /\ ~listings'[k].exists
            /\ \A j \in ListingKeys \ {k} : listings'[j] = listings[j]
            /\ \E e \in ended' : /\ e.id = listings[k].id /\ e.op = last'.op
                                 /\ ended' = ended \cup {e}
                                 /\ e \notin ended]_vars

\* C1 happens: one listing was sold, the other force-cancelled, and a later
\* purchase of one of them was turned away.
C1_Witness ==
    /\ \E e1 \in ended, e2 \in ended :
          /\ e1.op = "buy_now" /\ e2.op = "force_cancel" /\ e1.id # e2.id
    /\ \A k \in ListingKeys : ~listings[k].exists
    /\ last.op = "buy_now" /\ last.err = "AccountNotInitialized"

\* The checks of force_cancel that come before those of the attestation pass.
ReachesAttestationChecks(caller, lk) ==
    /\ listings[lk].exists
    /\ listings[lk].state = STATE_ACTIVE
    /\ tokens[listing_vault_ata(listings[lk])] = 1
    /\ tokens[wallet_ata(caller, listings[lk].mint)] # NoAccount
    /\ caller = listings[lk].seller

UsedKeys == {k \in AttestationKeys : attestations[k].exists /\ attestations[k].used}

last_nonce_of(a) ==
    IF attestor_states[a].exists THEN attestor_states[a].last_nonce ELSE 0

\* The step is a create_attestation that succeeded.
Attested == last'.err = "ok" /\ last'.op = "create_attestation" /\ last' # last

\* C3: for each attestor the k-th successful create_attestation stamps nonce
\* k on the new record and leaves last_nonce = k + 1; in every reachable
\* state the nonces of the attestor's attestations are exactly
\* 0 .. last_nonce - 1, each stored under its own nonce.
C3_NonceIssuance ==
    /\ [](\A a \in Users :
             /\ last_nonce_of(a) = issued[a]
             /\ {k[2] : k \in {k \in AttestationKeys :
                                  k[1] = a /\ attestations[k].exists}}
                = 0 .. (last_nonce_of(a) - 1)
             /\ \A k \in AttestationKeys :
                   (k[1] = a /\ attestations[k].exists)
                   => attestations[k].nonce = k[2] /\ attestations[k].attestor = a)
    /\ [][Attested =>
            LET a == last'.caller
                k == issued[a]
            IN  /\ last'.nonce = k
                /\ ~attestations[<<a, k>>].exists
                /\ attestations'[<<a, k>>].exists
                /\ attestations'[<<a, k>>].nonce = k
                /\ attestor_states'[a].last_nonce = k + 1
                /\ issued'[a] = k + 1]_vars

\* C3 happens: the attestor issued nonce 0 and then nonce 1.
C3_Witness ==
    /\ last.op = "create_attestation" /\ last.err = "ok" /\ last.nonce = 1
    /\ attestor_states[last.caller].last_nonce = 2
    /\ attestations[<<last.caller, 0>>].exists
    /\ attestations[<<last.caller, 1>>].exists

(***************************************************************************)
(* Every instruction on one asset of one seller: the listing instructions, *)
(* the vault instructions and the attestation instructions, with callers   *)
(* that are and are not entitled, and a clock that reaches the attestation *)
(* time-to-live exactly and passes it.                                     *)
(***************************************************************************)
NextAll ==
    \/ \E t \in Times : Tick(t)
    \/ \E f \in {250, MAX_FEE_BPS + 1} : InitializeConfig("u3", f, "u3")
    \/ InitializeUserVault("u1", "m1")
    \/ \E a \in AttestListingArgs :
          CreateListing("u1", "m1", "u1", vault_ata_of("u1", "m1"), a)
    \/ \E c \in {"u1", "u2"} : CancelListing(c, <<"u1", "m1">>, "u1")
    \/ \E b \in {"u2", "u3"} : BuyNow(b, <<"u1", "m1">>)
    \/ \E o \in {"u1", "u2"} : WithdrawFromVault(o, "u1", "m1")
    \/ \E a \in {"u2", "u3"} : InitializeAttestorState(a)
    \/ \E a \in {"u2", "u3"}, f \in FloorInputs : CreateAttestation(a, "c1", f)
    \/ \E c \in {"u1", "u3"}, n \in 0 .. (MaxNonce - 1), col \in Collections :
          ForceCancel(c, <<"u1", "m1">>, <<"u3", n>>, col)

SpecAll == Init /\ [][NextAll]_vars

(***************************************************************************)
(* SpecSteps: the sale of one asset with buy_now followed effect by        *)
(* effect; the other instructions run between transactions.                *)
(***************************************************************************)
Idle == calc = CalcIdle

NextSteps ==
    \/ \E t \in {1, ATTESTATION_TTL} : Idle /\ Tick(t)
    \/ \E f \in {0, 250} : Idle /\ InitializeConfig("u3", f, "u3")
    \/ Idle /\ InitializeUserVault("u1", "m1")
    \/ \E a \in AttestListingArgs :
          Idle /\ CreateListing("u1", "m1", "u1", vault_ata_of("u1", "m1"), a)
    \/ Idle /\ CancelListing("u1", <<"u1", "m1">>, "u1")
    \/ \E b \in {"u2", "u3"} : BuyNowBegin(b, <<"u1", "m1">>)
    \/ BuyNowStep

SpecSteps == Init /\ [][NextSteps]_vars

(***************************************************************************)
(* C11.  The frame of cancel_listing.                                      *)
(***************************************************************************)
CancelledNow ==
    /\ last' # last
    /\ last'.op = "cancel_listing"
    /\ last'.err = "ok"

\* C11: a successful cancel_listing changes only the listing, which was Active,
\* ends Cancelled and is destroyed; every other listing, every UserVault
\* record, every token account, the config and the attestation records are as
\* before, and the asset is still in the seller's vault.
C11_CancelListingFrame ==
    [][CancelledNow =>
         LET lk == last'.listing
             listing == listings[lk]
         IN  /\ listing.exists
             /\ listing.state = STATE_ACTIVE
             /\ listing.seller = last'.caller
             /\ ~listings'[lk].exists
             /\ \A k \in ListingKeys \ {lk} : listings'[k] = listings[k]
             /\ ended' \ ended =
                    {ended_listing(listing, "cancel_listing", STATE_CANCELLED,
                                   "nobody", None)}
             /\ vaults' = vaults
             /\ tokens' = tokens
             /\ config' = config
             /\ attestor_states' = attestor_states
             /\ attestations' = attestations
             /\ listing.user_vault = <<listing.seller, listing.mint>>
             /\ vaults'[listing.user_vault].exists
             /\ tokens'[vaults'[listing.user_vault].vault_ata] = 1
             /\ tokens'[wallet_ata(listing.seller, listing.mint)] # 1]_vars

\* A cancel has succeeded, the listing is gone and the vault holds the asset.
C11_Witness ==
    /\ last.op = "cancel_listing"
    /\ last.err = "ok"
    /\ ~listings[last.listing].exists
    /\ vaults[last.listing].exists
    /\ tokens[vault_ata_of(last.caller, last.listing[2])] = 1
    /\ \E e \in ended : e.op = "cancel_listing" /\ e.state = STATE_CANCELLED

(***************************************************************************)
(* C12.  An instruction that returns an error changes nothing.             *)
(***************************************************************************)
\* The transfers buy_now would make for buyer on the listing lk, now.
payments_due(lk) ==
    buy_now_payments(listings[lk].seller,
                     fee_split(calculate_price(listings[lk].price_config, now),
                               config.fee_bps))

ConditionsDone == calc.stage = "done" /\ calc.fn = "validate_conditions"

\* C13: for all conditions create_listing stores and every time,
\* validate_conditions returns ListingNotYetValid exactly when valid_from is
\* set and now < valid_from, ListingExpired exactly when valid_until is set
\* and now > valid_until, and succeeds otherwise, so at now = valid_from and
\* at now = valid_until; replacing min_floor by any other value gives the
\* same result.
C13_ValidityWindow ==
    ConditionsDone =>
        LET c == calc.conditions
            t == calc.t1
            early == IsSome(c.valid_from) /\ t < Unwrap(c.valid_from)
            late == IsSome(c.valid_until) /\ t > Unwrap(c.valid_until)
        IN  /\ calc.result \in {"ok", "ListingNotYetValid", "ListingExpired"}
            /\ calc.result = "ListingNotYetValid" <=> early
            /\ calc.result = "ListingExpired" <=> late
            /\ calc.result = "ok" <=> ~early /\ ~late
            /\ \A f \in MinFloorInputs :
                  validate_conditions([c EXCEPT !.min_floor = f], t) = calc.result

\* A window with both bounds and a floor condition was validated at its upper
\* bound and passed.
C13_Witness ==
    /\ ConditionsDone
    /\ IsSome(calc.conditions.valid_from)
    /\ IsSome(calc.conditions.valid_until)
    /\ IsSome(calc.conditions.min_floor)
    /\ calc.t1 = Unwrap(calc.conditions.valid_until)
    /\ calc.result = "ok"

(***************************************************************************)
(* C14.  The time-to-live of an attestation, checked under SpecAll.        *)
(***************************************************************************)
\* The force_cancel of caller on listing lk with attestation ak passes the
\* account constraints and the attestation is for the collection given.
OtherwiseValid(caller, lk, ak, collection) ==
    /\ force_cancel_accounts(caller, lk, ak) = "ok"
    /\ attestations[ak].collection = collection

\* C14: a force_cancel whose attestation is otherwise valid returns
\* AttestationExpired when the attestation is older than 300 seconds and is
\* not refused for its age when it is 300 seconds old or younger; the call
\* that is refused finds the attestation unused and the listing Active, and
\* leaves both as they are.
C14_AttestationTtl ==
    /\ [](\A caller \in Users, lk \in ListingKeys, ak \in AttestationKeys,
             collection \in Collections :
             OtherwiseValid(caller, lk, ak, collection) =>
                LET age == now - attestations[ak].ts
                    err == force_cancel_result(caller, lk, ak, collection)
                IN  /\ age > ATTESTATION_TTL => err = "AttestationExpired"
                    /\ age <= ATTESTATION_TTL => err # "AttestationExpired"
                    /\ err = "AttestationExpired" =>
                          /\ ~attestations[ak].used
                          /\ listings[lk].state = STATE_ACTIVE)
    /\ [][last' = [op |-> "force_cancel", err |-> "AttestationExpired"] =>
            /\ attestations' = attestations
            /\ listings' = listings
            /\ tokens' = tokens]_vars

\* A force_cancel has just been refused for the age of the attestation: the
\* attestation, issued 301 seconds ago with a floor below the listing's
\* minimum price, is unused and the listing is Active.
C14_Witness ==
    /\ last = [op |-> "force_cancel", err |-> "AttestationExpired"]
    /\ \E ak \in AttestationKeys :
          /\ OtherwiseValid("u1", <<"u1", "m1">>, ak, "c1")
          /\ now - attestations[ak].ts = ATTESTATION_TTL + 1
          /\ attestations[ak].floor < listing_min_price(listings[<<"u1", "m1">>])
          /\ ~attestations[ak].used
    /\ listings[<<"u1", "m1">>].state = STATE_ACTIVE

(***************************************************************************)
(* C15.  The floor condition of force_cancel, checked under SpecAll.       *)
(***************************************************************************)
ForceCancelInputs == Users \X ListingKeys \X AttestationKeys \X Collections

ForceCancelledNow ==
    /\ last' # last
    /\ last'.op = "force_cancel"
    /\ last'.err = "ok"

Attestors ==
    {a \in Users : attestor_states[a].exists
                      => attestor_states[a].last_nonce < MaxNonce}

\* C17, as stated: with a config on the ledger, create_attestation by any
\* caller other than its authority returns UnauthorizedAttestor.
C17_OthersGetUnauthorizedAttestor ==
    \A a \in Attestors :
        config.exists /\ a # config.authority
        => create_attestation_result(a) = "UnauthorizedAttestor"

\* C17, amended: create_attestation succeeds only for the authority of the
\* config; any other caller is refused, with UnauthorizedAttestor when the
\* caller has an AttestorState and the config exists and at account
\* validation otherwise; a refused call creates no Attestation and changes no
\* last_nonce; every Attestation on the ledger is by the authority, and a
\* force_cancel succeeds only with an attestation by the authority.
C17_AttestorAuthorization ==
    /\ [](\A a \in Attestors :
             LET err == create_attestation_result(a) IN
             /\ err = "ok" => config.exists /\ a = config.authority
             /\ config.exists /\ a # config.authority =>
                   /\ err \in {"UnauthorizedAttestor", "AccountNotInitialized"}
                   /\ err = "UnauthorizedAttestor" <=> attestor_states[a].exists)
    /\ [](\A ak \in AttestationKeys :
             attestations[ak].exists =>
                config.exists /\ attestations[ak].attestor = config.authority)
    /\ [](\A i \in ForceCancelInputs :
             force_cancel_result(i[1], i[2], i[3], i[4]) = "ok" =>
                attestations[i[3]].attestor = config.authority)
    /\ [][last'.op = "create_attestation" /\ last'.err # "ok" =>
            /\ attestations' = attestations
            /\ attestor_states' = attestor_states]_vars

\* u2, who has an AttestorState but is not the authority of the config, has
\* just been refused: u2 has no Attestation and its last_nonce is 0.
C17_Witness ==
    /\ last = [op |-> "create_attestation", err |-> "UnauthorizedAttestor"]
    /\ config.exists
    /\ config.authority = "u3"
    /\ attestor_states["u2"].exists
    /\ attestor_states["u2"].last_nonce = 0
    /\ \A ak \in AttestationKeys : ak[1] = "u2" => ~attestations[ak].exists

(***************************************************************************)
(* C18.  The AttestorState of an attestor, checked under SpecAll.          *)
(***************************************************************************)
\* C18: initialize_attestor_state creates the counter with last_nonce = 0; for
\* an attestor that has an AttestorState it returns AlreadyInitialized and
\* leaves last_nonce as it is; no step removes an AttestorState, lowers its
\* last_nonce or sets a last_nonce above 0 back to 0.
C18_AttestorStateSingleton ==
    /\ [](\A a \in Users :
             attestor_states[a].exists
             => initialize_attestor_state_result(a) = "AlreadyInitialized")
    /\ [][/\ last'.op = "initialize_attestor_state" /\ last'.err = "ok"
             /\ last' # last
             => /\ ~attestor_states[last'.caller].exists
                /\ attestor_states'[last'.caller].exists
                /\ attestor_states'[last'.caller].last_nonce = 0]_vars
    /\ [][last'.op = "initialize_attestor_state" /\ last'.err # "ok"
             => attestor_states' = attestor_states]_vars
    /\ [][\A a \in Users :
             attestor_states[a].exists =>
                /\ attestor_states'[a].exists
                /\ attestor_states'[a].last_nonce >= attestor_states[a].last_nonce]_vars

\* initialize_attestor_state has just been refused for u3, whose AttestorState
\* has issued a nonce: last_nonce is still above 0.
C18_Witness ==
    /\ last.op = "initialize_attestor_state"
    /\ last.err # "ok"
    /\ attestor_states["u3"].exists
    /\ attestor_states["u3"].last_nonce > 0
    /\ ~attestor_states["u2"].exists

(***************************************************************************)
(* C19.  The config, checked under Spec.                                   *)
(***************************************************************************)
\* C19: initialize_config fails for a fee above 1000 basis points and when
\* the config exists; the config, of which the ledger has one address, has a
\* fee of at most 1000 basis points in every reachable state, is created only
\* by a successful initialize_config with the caller as authority, and once
\* it exists no step changes its authority, fee_bps or fee_recipient.
C19_ConfigInvariant ==
    /\ [](\A f \in FeeBpsInputs :
             /\ f > MAX_FEE_BPS => initialize_config_result(f) # "ok"
             /\ config.exists => initialize_config_result(f) # "ok"
             /\ ~config.exists /\ f <= MAX_FEE_BPS => initialize_config_result(f) = "ok")
    /\ [](config.exists => config.fee_bps <= MAX_FEE_BPS)
    /\ [][config.exists => config' = config]_vars
    /\ [][config' # config =>
            /\ last'.op = "initialize_config" /\ last'.err = "ok"
            /\ config'.exists
            /\ config'.authority = last'.caller]_vars
    /\ [][last'.op = "initialize_config" /\ last'.err # "ok" => config' = config]_vars

\* The config exists with the largest fee allowed and a second
\* initialize_config has just been refused.
C19_Witness ==
    /\ config.exists
    /\ config.fee_bps = MAX_FEE_BPS
    /\ config.authority = "u3"
    /\ last.op = "initialize_config"
    /\ last.err # "ok"

(***************************************************************************)
(* C20.  withdraw_from_vault and the listings of the vault, under Spec.    *)
(***************************************************************************)
\* C20: in every reachable state in which an Active Listing references a
\* UserVault, withdraw_from_vault on that vault fails, whoever calls it, and
\* no successful withdraw_from_vault takes the asset out of a vault that an
\* Active Listing references.
C20_WithdrawLockedByListing ==
    /\ [](\A lk \in ListingKeys, owner \in Users :
             /\ listings[lk].exists
             /\ listings[lk].state = STATE_ACTIVE
             /\ vaults[listings[lk].user_vault].exists
             => withdraw_from_vault_result(owner, listings[lk].user_vault[1],
                                           listings[lk].user_vault[2]) # "ok")
    /\ [][/\ last' # last
          /\ last'.op = "withdraw_from_vault"
          /\ last'.err = "ok"
          => \A lk \in ListingKeys :
                listings[lk].exists /\ listings[lk].state = STATE_ACTIVE
                => listings[lk].user_vault # <<last'.caller, last'.mint>>]_vars

\* A withdraw_from_vault has succeeded on the vault an Active listing
\* references: the listing is still on the ledger, Active, the vault and its
\* token account are gone and the asset is in the owner's wallet.
C20_Witness ==
    /\ last.op = "withdraw_from_vault"
    /\ last.err = "ok"
    /\ \E lk \in ListingKeys :
          /\ listings[lk].exists
          /\ listings[lk].state = STATE_ACTIVE
          /\ listings[lk].user_vault = <<last.caller, last.mint>>
          /\ ~vaults[listings[lk].user_vault].exists
          /\ tokens[vault_ata_of(last.caller, last.mint)] = NoAccount
          /\ tokens[wallet_ata(last.caller, last.mint)] = 1

(***************************************************************************)
(* C21.  The UserVault of an owner and a mint, checked under Spec.         *)
(***************************************************************************)
\* C21: initialize_user_vault succeeds only if the caller's token account
\* holds exactly one unit, the mint has 0 decimals and a supply of 1, and no
\* UserVault exists for (owner, mint); the step that succeeds creates the
\* UserVault of that pair and leaves the unit in the vault's token account;
\* the record at the address of a pair is that pair's, it is never
\* overwritten, and it is removed only by a successful withdraw_from_vault
\* of its owner.
C21_UserVaultUniqueness ==
    /\ [](\A vk \in VaultKeys :
             /\ initialize_user_vault_result(vk[1], vk[2]) = "ok" =>
                   /\ tokens[wallet_ata(vk[1], vk[2])] = 1
                   /\ mint_decimals(vk[2]) = 0
                   /\ mint_supply(vk[2]) = 1
                   /\ ~vaults[vk].exists
             /\ vaults[vk].exists =>
                   /\ vaults[vk].owner = vk[1]
                   /\ vaults[vk].mint = vk[2]
                   /\ vaults[vk].vault_ata = vault_ata_of(vk[1], vk[2]))
    /\ [][/\ last' # last
          /\ last'.op = "initialize_user_vault"
          /\ last'.err = "ok"
          => LET vk == <<last'.caller, last'.mint>> IN
             /\ ~vaults[vk].exists
             /\ vaults'[vk].exists
             /\ tokens[wallet_ata(vk[1], vk[2])] = 1
             /\ tokens'[wallet_ata(vk[1], vk[2])] = 0
             /\ tokens'[vaults'[vk].vault_ata] = 1
             /\ \A k \in VaultKeys \ {vk} : vaults'[k] = vaults[k]]_vars
    /\ [][\A vk \in VaultKeys :
             vaults[vk].exists =>
                \/ vaults'[vk] = vaults[vk]
                \/ /\ ~vaults'[vk].exists
                   /\ last'.op = "withdraw_from_vault"
                   /\ last'.err = "ok"
                   /\ last'.caller = vaults[vk].owner
                   /\ last'.mint = vaults[vk].mint]_vars

\* u2, who bought the asset, has just put it in a vault of their own while
\* the seller's UserVault for the same mint is still on the ledger.
C21_Witness ==
    /\ last.op = "initialize_user_vault"
    /\ last.err = "ok"
    /\ last.caller = "u2"
    /\ vaults[<<"u2", "m1">>].exists
    /\ vaults[<<"u1", "m1">>].exists
    /\ tokens[vault_ata_of("u2", "m1")] = 1
    /\ tokens[vault_ata_of("u1", "m1")] = 0
    /\ tokens[wallet_ata("u2", "m1")] = 0

(***************************************************************************)
(* C22.  One listing per vault, checked under SpecAttest.                  *)
(***************************************************************************)
\* The Active listings that reference the UserVault at vk.
ActiveListingsOf(vk) ==
    {lk \in ListingKeys : /\ listings[lk].exists
                          /\ listings[lk].state = STATE_ACTIVE
                          /\ listings[lk].user_vault = vk}

CreatedNow ==
    /\ last' # last
    /\ last'.op = "create_listing"
    /\ last'.err = "ok"

\* C22: every UserVault is referenced by at most one Active Listing, the one
\* at the address of the vault's (seller, mint); create_listing for a pair
\* whose listing is on the ledger fails, whatever vault, token account and
\* arguments it is given; every listing ever created is either on the ledger
\* or has ended by cancel_listing, buy_now or force_cancel, so a
\* create_listing that succeeds for a pair finds the pair's earlier listings
\* ended.
C22_OneListingPerVault ==
    /\ [](\A vk \in VaultKeys :
             /\ Cardinality(ActiveListingsOf(vk)) <= 1
             /\ ActiveListingsOf(vk) \subseteq {vk})
    /\ [](\A lk \in ListingKeys, vo \in Users, a \in ListingArgs :
             listings[lk].exists =>
                \A ta \in VaultAtaInputs(lk[1], vo, lk[2]) :
                   create_listing_result(lk[1], lk[2], vo, ta, a) # "ok")
    /\ [](\A i \in 0 .. (next_id - 1) :
             \/ \E lk \in ListingKeys : listings[lk].exists /\ listings[lk].id = i
             \/ \E e \in ended : e.id = i /\ e.op \in TerminalOps)
    /\ [][CreatedNow =>
            LET lk == <<last'.caller, last'.mint>> IN
            /\ ~listings[lk].exists
            /\ listings'[lk].exists
            /\ listings'[lk].id = next_id
            /\ \A k \in ListingKeys \ {lk} : listings'[k] = listings[k]]_vars

\* The pair (u1, m1) has just been listed a second time: its first listing
\* was cancelled, the second is Active and is the only listing of the vault.
C22_Witness ==
    /\ last.op = "create_listing"
    /\ last.err = "ok"
    /\ last.mint = "m1"
    /\ listings[<<"u1", "m1">>].exists
    /\ listings[<<"u1", "m1">>].id > 0
    /\ ended = {ended_listing([id |-> 0], "cancel_listing", STATE_CANCELLED,
                               "nobody", None)}
    /\ ~vaults[<<"u1", "m2">>].exists
    /\ ActiveListingsOf(<<"u1", "m1">>) = {<<"u1", "m1">>}

(***************************************************************************)
(* C23.  Who is paid what by buy_now, checked under Spec.                  *)
(***************************************************************************)
\* C23: on every successful buy_now whose buyer, seller and fee recipient are
\* three parties, the buyer is debited price in total, the fee recipient is
\* credited marketplace_fee and the seller is credited seller_amount =
\* price - marketplace_fee - royalty, the royalty not being part of the
\* seller's proceeds.
C23_ThreeWayPayout ==
    [][BoughtNow =>
         LET seller == listings[last'.listing].seller
             buyer == last'.caller
             sp == last'.split
         IN  Cardinality({buyer, seller, config.fee_recipient}) = 3 =>
                /\ lamports'[buyer] = lamports[buyer] - sp.price
                /\ lamports'[config.fee_recipient]
                      = lamports[config.fee_recipient] + sp.marketplace_fee
                /\ sp.seller_amount = sp.price - sp.marketplace_fee - sp.royalty
                /\ lamports'[seller] = lamports[seller] + sp.seller_amount]_vars

\* u2 has bought u1's listing at 1000 with a fee of 250 basis points paid to
\* u3: u2 paid 1000, u3 received 25 and u1 received 975, the seller's share
\* of 925 and the royalty of 50.
C23_Witness ==
    /\ last.op = "buy_now"
    /\ last.err = "ok"
    /\ last.caller = "u2"
    /\ last.listing = <<"u1", "m1">>
    /\ last.split.seller_amount = 925
    /\ last.split.royalty = 50
    /\ lamports["u2"] = initial_lamports("u2") - 1000
    /\ lamports["u3"] = initial_lamports("u3") + 25
    /\ lamports["u1"] = initial_lamports("u1") + 975

(***************************************************************************)
(* C24.  The order of the effects of buy_now, checked under SpecSteps.     *)
(***************************************************************************)
InBuyNow == calc # CalcIdle /\ calc.stage = "buy_now"

\* The order the effects are to be issued in; a payment of 0 is left out.
ExpectedOrder(split) ==
    SelectSeq(<<"pay_seller", "pay_fee", "pay_royalty", "transfer_asset",
                "mark_sold", "close_listing">>,
              LAMBDA step : step_issued(step, split))

Issued(step) == \E n \in 1 .. Len(calc.done) : calc.done[n] = step

\* C24: while a buy_now that succeeds is in progress, the effects issued so
\* far are an initial part of: payment to the seller, payment of the fee,
\* payment of the royalty, transfer of the asset, state Sold, destruction of
\* the record; the ledger shows them: the asset is with the buyer only when
\* every payment has been made, the listing is Sold only when the asset is
\* with the buyer and no longer in the vault, and the record is on the ledger
\* until the last step.
C24_BuyNowStepOrder ==
    InBuyNow =>
        LET call == calc.call
            listing == listings[call.listing]
            buyer_ata == wallet_ata(call.caller, listing.mint)
            order == ExpectedOrder(call.split)
        IN  /\ Len(calc.done) <= Len(order)
            /\ calc.done = SubSeq(order, 1, Len(calc.done))
            /\ listing.exists
            /\ Issued("transfer_asset") <=> tokens[buyer_ata] = 1
            /\ Issued("mark_sold") <=> listing.state = STATE_SOLD
            /\ tokens[buyer_ata] = 1 =>
                  /\ tokens[vaults[listing.user_vault].vault_ata] = 0
                  /\ lamports = pay(calc.before, call.caller, call.transfers)[1]
            /\ tokens[buyer_ata] = 0 =>
                  tokens[vaults[listing.user_vault].vault_ata] = 1
            /\ listing.state = STATE_SOLD => tokens[buyer_ata] = 1
            /\ listing.state \in {STATE_ACTIVE, STATE_SOLD}

\* A buy_now is in progress: the three payments and the transfer of the asset
\* have been issued, the buyer holds the asset, and the listing is still
\* Active.
C24_Witness ==
    /\ InBuyNow
    /\ calc.done = <<"pay_seller", "pay_fee", "pay_royalty", "transfer_asset">>
    /\ tokens[wallet_ata(calc.call.caller, "m1")] = 1
    /\ listings[calc.call.listing].exists
    /\ listings[calc.call.listing].state = STATE_ACTIVE
    /\ lamports # calc.before

(***************************************************************************)
(* C25.  Which check of force_cancel answers, checked under SpecAttest.    *)
(***************************************************************************)
\* The check named by err fails for the attestation ak, the listing lk and
\* the collection given.
CheckFails(err, lk, ak, collection) ==
    CASE err = "UnauthorizedAttestor" -> attestations[ak].attestor # config.authority
      [] err = "InvalidMetadata" -> attestations[ak].collection # collection
      [] err = "AttestationUsed" -> attestations[ak].used
      [] err = "AttestationExpired" -> now - attestations[ak].ts > ATTESTATION_TTL
      [] err = "FloorTooHigh" ->
            attestations[ak].floor >= listing_min_price(listings[lk])

\* The error of the first check of order that fails, "ok" when none does.
FirstFailing(order, lk, ak, collection) ==
    LET failing == SelectSeq(order, LAMBDA err : CheckFails(err, lk, ak, collection))
    IN  IF failing = <<>> THEN "ok" ELSE Head(failing)

\* The calls whose listing, custody and seller checks pass and whose
\* attestation is on the ledger.
AttestationChecked ==
    {i \in ForceCancelInputs :
        /\ ReachesAttestationChecks(i[1], i[2])
        /\ attestations[i[3]].exists
        /\ config.exists}

C26_SellerCanAlwaysCancel ==
    \A lk \in ListingKeys :
        listings[lk].exists /\ listings[lk].state = STATE_ACTIVE
        => cancel_listing_result(listings[lk].seller, lk,
                                 listings[lk].user_vault[1]) = "ok"

\* The seller has withdrawn the asset from the vault of an Active listing and
\* the seller's cancel_listing has just been refused: the listing is still
\* Active and no vault the seller could pass makes the call succeed.
C26_Witness ==
    /\ last = [op |-> "cancel_listing", err |-> "AccountNotInitialized"]
    /\ listings[<<"u1", "m1">>].exists
    /\ listings[<<"u1", "m1">>].state = STATE_ACTIVE
    /\ ~vaults[<<"u1", "m1">>].exists
    /\ tokens[wallet_ata("u1", "m1")] = 1
    /\ \A vo \in Users : cancel_listing_result("u1", <<"u1", "m1">>, vo) # "ok"

(***************************************************************************)
(* C27.  Conservation of the asset, checked under SpecAll.                 *)
(***************************************************************************)
\* The token accounts of mint m that hold a unit.
Holders(m) == {k \in TokenKeys : k[3] = m /\ tokens[k] = 1}

FeeSplitDone == calc.stage = "done" /\ calc.fn = "fee_split"

\* C28: for every price a u64 can hold and every fee_bps initialize_config
\* accepts (at most MAX_FEE_BPS), the fee computation of buy_now does not
\* return ArithmeticOverflow: the products price * fee_bps and
\* price * royalty_bps stay in the u128 range, both quotients fit in a u64 and
\* are the values the handler keeps, and marketplace_fee + royalty <= price,
\* so that neither subtraction goes below zero.
C28_FeeArithmeticNeverFails ==
    FeeSplitDone /\ calc.fee_bps <= MAX_FEE_BPS =>
        /\ calc.split.err = "ok"
        /\ calc.price * calc.fee_bps <= U128_MAX
        /\ calc.price * royalty_bps <= U128_MAX
        /\ (calc.price * calc.fee_bps) \div BPS_DENOMINATOR <= U64_MAX
        /\ (calc.price * royalty_bps) \div BPS_DENOMINATOR <= U64_MAX
        /\ calc.split.marketplace_fee = (calc.price * calc.fee_bps) \div BPS_DENOMINATOR
        /\ calc.split.royalty = (calc.price * royalty_bps) \div BPS_DENOMINATOR
        /\ calc.split.marketplace_fee + calc.split.royalty <= calc.price
        /\ calc.split.seller_amount
               = (calc.price - calc.split.marketplace_fee) - calc.split.royalty

\* The largest price at the largest accepted fee: both products exceed the
\* u64 range and the split succeeds.
C28_Witness ==
    /\ FeeSplitDone
    /\ calc.price = U64_MAX
    /\ calc.fee_bps = MAX_FEE_BPS
    /\ calc.price * calc.fee_bps > U64_MAX
    /\ calc.price * royalty_bps > U64_MAX
    /\ calc.split.err = "ok"
    /\ calc.split.marketplace_fee > 0
    /\ calc.split.royalty > 0

(***************************************************************************)
(* C29.  The seller's vault record after a sale, checked under Spec.       *)
(***************************************************************************)
\* The vault record exists and its token account is open and empty.
EmptiedVault(vk) ==
    /\ vaults[vk].exists
    /\ tokens[vaults[vk].vault_ata] = 0

\* C29: after a successful buy_now the UserVault of the listing's seller
\* still exists and its token account holds 0 units; for a vault in that
\* state withdraw_from_vault by its owner fails with InvalidTokenAmount and
\* by anyone else fails too, create_listing by its owner with the vault and
\* its token account fails with NftNotInVault whatever the arguments and
\* fails for every other caller and token account, and initialize_user_vault
\* for the same owner and asset fails with AccountInUse; no step changes the
\* record or its token account, so the vault is never destroyed.
C29_VaultRecordAfterSale ==
    /\ [](last.op = "buy_now" /\ last.err = "ok" => EmptiedVault(last.listing))
    /\ [](\A vk \in VaultKeys : EmptiedVault(vk) =>
             /\ withdraw_from_vault_result(vk[1], vk[1], vk[2]) = "InvalidTokenAmount"
             /\ \A o \in Users : withdraw_from_vault_result(o, vk[1], vk[2]) # "ok"
             /\ \A a \in ListingArgs :
                    create_listing_result(vk[1], vk[2], vk[1],
                                          vaults[vk].vault_ata, a) = "NftNotInVault"
             /\ \A s \in Users, a \in ListingArgs :
                    \A ta \in VaultAtaInputs(s, vk[1], vk[2]) :
                        create_listing_result(s, vk[2], vk[1], ta, a) # "ok"
             /\ initialize_user_vault_result(vk[1], vk[2]) = "AccountInUse")
    /\ [][\A vk \in VaultKeys : EmptiedVault(vk) =>
             /\ vaults'[vk] = vaults[vk]
             /\ tokens'[vaults[vk].vault_ata] = 0]_vars

\* After the sale of u1's asset the seller tried to withdraw from the
\* emptied vault and was refused with InvalidTokenAmount; the record is
\* still there.
C29_Witness ==
    /\ last.op = "withdraw_from_vault"
    /\ last.err = "InvalidTokenAmount"
    /\ EmptiedVault(<<"u1", "m1">>)
    /\ \E e \in ended : e.op = "buy_now"

(***************************************************************************)
(* SpecForce: one listing of u1, attestations by the authority u3, and     *)
(* force_cancel signed by the seller or by the authority, each passing a   *)
(* token account of their choice.                                          *)
(***************************************************************************)
SellerTokenAccountInputs(caller) ==
    {wallet_ata(caller, "m1"), wallet_ata("u1", "m1"), vault_ata_of("u1", "m1")}

NextForce ==
    \/ Tick(ATTESTATION_TTL + 1)
    \/ InitializeConfig("u3", 250, "u3")
    \/ InitializeUserVault("u1", "m1")
    \/ \E a \in AttestListingArgs :
          CreateListing("u1", "m1", "u1", vault_ata_of("u1", "m1"), a)
    \/ InitializeAttestorState("u3")
    \/ \E f \in FloorInputs : CreateAttestation("u3", "c1", f)
    \/ \E c \in {"u1", "u3"}, n \in 0 .. (MaxNonce - 1), col \in Collections :
          \E ta \in SellerTokenAccountInputs(c) :
              ForceCancelGiven(c, <<"u1", "m1">>, <<"u3", n>>, col, ta)

SpecForce == Init /\ [][NextForce]_vars

(***************************************************************************)
(* C30.  force_cancel needs the seller, checked under SpecForce.           *)
(***************************************************************************)
\* The listing's seller, passing the token account of their own wallet, would
\* force-cancel the listing with this attestation now: the attestation is by
\* the authority, unused, for the collection, fresh, with floor < min_price.
SellerWouldSucceed(lk, ak, collection) ==
    /\ listings[lk].exists
    /\ force_cancel_result(listings[lk].seller, lk, ak, collection) = "ok"

====
